---------------------------- MODULE Spec2Model ----------------------------
(***************************************************************************)
(* Admission-controlled rasterization and dual-track fusion of a floor     *)
(* plan PDF: SecurePDFRenderer (admission), StreamingProcessor with        *)
(* TiledRenderer (raster track), HybridFusionPipeline (fusion) and the     *)
(* PipelineOrchestrator.run_pipeline job that drives them.                 *)
(*                                                                         *)
(* Numbers.  Page sizes are PDF points.  A pixel length is the rational    *)
(* points * dpi / 72; it is kept as an integer count of 72nds of a pixel   *)
(* ("px72").  A pixel count (an area) is kept as whole + rem / 5184.  All  *)
(* comparisons are the exact rational ones.                                *)
(*                                                                         *)
(* Specifications.  Spec is one job of run_pipeline on the orchestrator    *)
(* as constructed; AdmitSpec is admission for renderers with other memory  *)
(* limits; TilerSpec is the tiled track for every small tiler              *)
(* configuration; FuseSpec is repeated fusion; AlignSpec is the aligner.   *)
(***************************************************************************)
EXTENDS Integers, Sequences, FiniteSets, TLC

(***************************************************************************)
(* Program constants: SecurePDFRenderer class attributes.                  *)
(***************************************************************************)
MAX_PIXEL_COUNT == 25000000
MAX_MEMORY_MB == 512
MAX_FILE_SIZE_MB == 100
TIMEOUT_SECONDS == 30
ABSOLUTE_MIN_DPI == 72
ABSOLUTE_MAX_DPI == 300

BYTES_PER_MB == 1024 * 1024

\* The candidate list of _calculate_forced_dpi, in the order the loop tries it.
DPI_LADDER == <<300, 200, 150, 100, 72>>

\* TiledRenderer.__init__ defaults.
DEFAULT_TILE_SIZE == 2000
DEFAULT_OVERLAP == 128

\* SpatialAlignmentEngine.__init__ default dpi.
DEFAULT_DPI == 72

\* Python's None for an Optional[int] dpi.
None == 0

\* A SecurePDFRenderer as the class defines it: the limits its methods read
\* through self.  A record r of this shape stands for `self` below.
DefaultRenderer ==
    [MAX_PIXEL_COUNT |-> MAX_PIXEL_COUNT,
     MAX_MEMORY_MB |-> MAX_MEMORY_MB,
     MAX_FILE_SIZE_MB |-> MAX_FILE_SIZE_MB,
     TIMEOUT_SECONDS |-> TIMEOUT_SECONDS]

(***************************************************************************)
(* Bounds of the model (not program constants).                            *)
(***************************************************************************)
\* Most detections one job accumulates in ml_detections.
MaxDets == 2
\* Largest page edge, in points, of the small pages the tiler is run on alone.
MaxTilerPts == 3
\* Largest tile edge, in pixels, of the tiler configurations tried alone.
MaxTilerTile == 3
\* Most fuse calls made on a sequence of fusion pipelines.
MaxFuseCalls == 3
\* Longest coordinate list converted on the aligner alone.
MaxCoords == 2
\* Most start() calls made on one ResourceMonitor.
MaxStarts == 2
\* Most memory samples the loops of one ResourceMonitor take.
MaxSamples == 2
\* run_pipeline coroutines started on one orchestrator.
MaxRuns == 2
\* POST /process requests accepted for one job id.
MaxProcess == 2

(***************************************************************************)
(* Exact arithmetic helpers.                                               *)
(***************************************************************************)
Min(a, b) == IF a <= b THEN a ELSE b

\* math.ceil(n / d) for integers n >= 0, d > 0.
Ceil(n, d) == (n + d - 1) \div d

\* p * k <= n for a pixel count p = whole + rem/5184 and integers k > 0, n >= 0.
TimesLeq(p, k, n) ==
    \/ p.whole < n \div k
    \/ p.whole = n \div k /\ p.rem * k <= (n % k) * 5184

(***************************************************************************)
(* SecurePDFRenderer: the DPI ladder and the memory estimate.              *)
(***************************************************************************)
\* pixels = (width_inches * dpi) * (height_inches * dpi), with
\* width_inches = page.rect.width / 72.0: the rational (w*dpi)*(h*dpi)/5184.
PixelCount(page, dpi) ==
    LET A == page.w * dpi
        B == page.h * dpi
        qa == A \div 72
        ra == A % 72
        qb == B \div 72
        rb == B % 72
        rest == 72 * (qa * rb + qb * ra) + ra * rb
    IN  [whole |-> qa * qb + rest \div 5184, rem |-> rest % 5184]

\* Faulty variant of CandidateFits: the ladder applies the 1.5 overhead factor.
CandidateFitsWithOverhead(r, page, candidate_dpi) ==
    LET pixels == PixelCount(page, candidate_dpi)
    IN  /\ TimesLeq(pixels, 1, r.MAX_PIXEL_COUNT)
        /\ TimesLeq(pixels, 9, 2 * r.MAX_MEMORY_MB * BYTES_PER_MB)

\* Faulty variant of CandidateFits: the pixel ceiling itself is refused.
CandidateFitsBelowCeiling(r, page, candidate_dpi) ==
    LET pixels == PixelCount(page, candidate_dpi)
    IN  /\ pixels.whole < r.MAX_PIXEL_COUNT
        /\ TimesLeq(pixels, 3, r.MAX_MEMORY_MB * BYTES_PER_MB)

\* The loop body's test for one candidate:
\*   pixels <= self.MAX_PIXEL_COUNT and
\*   (pixels * 3) / (1024 * 1024) <= self.MAX_MEMORY_MB
CandidateFits(r, page, candidate_dpi) ==
    LET pixels == PixelCount(page, candidate_dpi)
    IN  /\ TimesLeq(pixels, 1, r.MAX_PIXEL_COUNT)
        /\ TimesLeq(pixels, 3, r.MAX_MEMORY_MB * BYTES_PER_MB)

\* Faulty variant of LadderFrom: the lowest candidate that fits instead of the first.
LadderFromLowest(r, page, i) ==
    LET fits == { j \in i..Len(DPI_LADDER) : CandidateFits(r, page, DPI_LADDER[j]) }
    IN  IF fits = {} THEN None
        ELSE DPI_LADDER[CHOOSE j \in fits : \A k \in fits : k <= j]

RECURSIVE LadderFrom(_, _, _)
LadderFrom(r, page, i) ==
    IF i > Len(DPI_LADDER) THEN None
    ELSE IF CandidateFits(r, page, DPI_LADDER[i]) THEN DPI_LADDER[i]
    ELSE LadderFrom(r, page, i + 1)

\* _calculate_forced_dpi: the first candidate that fits, or None.
calculate_forced_dpi(r, page) == LadderFrom(r, page, 1)

\* Faulty variant of EstimateExceeds: the ceiling taken as kilobytes.
EstimateExceedsKB(r, page, dpi) ==
    ~TimesLeq(PixelCount(page, dpi), 9, 2 * r.MAX_MEMORY_MB * 1024)

\* _estimate_memory(page, dpi) > self.MAX_MEMORY_MB, where the estimate is
\* (width_px * height_px * 3) * 1.5 / (1024 * 1024): pixels * 9 > 2 * MAX * 2^20.
EstimateExceeds(r, page, dpi) ==
    ~TimesLeq(PixelCount(page, dpi), 9, 2 * r.MAX_MEMORY_MB * BYTES_PER_MB)

\* Faulty variant of FileTooLarge: the size taken in kilobytes instead of megabytes.
FileTooLargeKB(r, size) == size \div 1024 > r.MAX_FILE_SIZE_MB * BYTES_PER_MB

\* LAYER 1: file_size_mb = getsize / (1024*1024);
\* file_size_mb > self.MAX_FILE_SIZE_MB.
FileTooLarge(r, size) == size > r.MAX_FILE_SIZE_MB * BYTES_PER_MB

\* LAYER 2: `async with timeout(TIMEOUT_SECONDS)` cancels the task at an await
\* inside the block once the deadline has passed.  The block holds the two
\* synchronous calls fitz.open(pdf_path) and doc[0] and no await, so the
\* event loop never runs the timer's callback while the block executes.
OpenBlockHasAwait == FALSE
TimeoutDelivered(r, open_seconds) ==
    OpenBlockHasAwait /\ open_seconds > r.TIMEOUT_SECONDS

\* Faulty variant of Strategy: the tiling fallback returns safe_dpi (None) as its dpi.
StrategyNoFloor(r, page) ==
    LET safe_dpi == calculate_forced_dpi(r, page)
    IN  IF safe_dpi = None \/ EstimateExceeds(r, page, safe_dpi)
        THEN [method |-> "mandatory_tiling", dpi |-> safe_dpi]
        ELSE [method |-> "direct", dpi |-> safe_dpi]

\* Faulty variant of Strategy: a failed final check falls back to the floor.
StrategyDowngradeToFloor(r, page) ==
    LET safe_dpi == calculate_forced_dpi(r, page)
    IN  IF safe_dpi = None \/ EstimateExceeds(r, page, safe_dpi)
        THEN [method |-> "mandatory_tiling", dpi |-> 72]
        ELSE [method |-> "direct", dpi |-> safe_dpi]

\* LAYERS 4-5 of safe_render on an opened page: the returned method and dpi.
Strategy(r, page) ==
    LET safe_dpi == calculate_forced_dpi(r, page)
    IN  IF safe_dpi = None
        THEN [method |-> "mandatory_tiling", dpi |-> 72]
        ELSE IF EstimateExceeds(r, page, safe_dpi)
        THEN [method |-> "mandatory_tiling", dpi |-> safe_dpi]
        ELSE [method |-> "direct", dpi |-> safe_dpi]


(***************************************************************************)
(* TiledRenderer.render_tiled: the grid and one tile's bounds.             *)
(* t is the renderer's configuration [tile_size, overlap].                 *)
(***************************************************************************)
\* width_px = (page.rect.width / 72.0) * target_dpi, in 72nds of a pixel.
WidthPx72(page, target_dpi) == page.w * target_dpi
HeightPx72(page, target_dpi) == page.h * target_dpi

\* Faulty variant of tiles_x: the quotient rounded down.
tiles_x_floor(t, page, target_dpi) ==
    WidthPx72(page, target_dpi) \div (72 * (t.tile_size - t.overlap))

\* tiles_x = math.ceil(width_px / (self.tile_size - self.overlap))
tiles_x(t, page, target_dpi) ==
    Ceil(WidthPx72(page, target_dpi), 72 * (t.tile_size - t.overlap))

\* Faulty variant of tiles_y: the row count taken from the page width.
tiles_y_from_width(t, page, target_dpi) ==
    Ceil(WidthPx72(page, target_dpi), 72 * (t.tile_size - t.overlap))

\* tiles_y = math.ceil(height_px / (self.tile_size - self.overlap))
tiles_y(t, page, target_dpi) ==
    Ceil(HeightPx72(page, target_dpi), 72 * (t.tile_size - t.overlap))

\* Faulty variant of TileBounds: a tile ends where the next one starts.
TileBoundsAbutting(t, page, target_dpi, tx, ty) ==
    LET x0 == tx * (t.tile_size - t.overlap)
        y0 == ty * (t.tile_size - t.overlap)
    IN  << 72 * x0,
           72 * y0,
           Min(72 * (x0 + t.tile_size - t.overlap), WidthPx72(page, target_dpi)),
           Min(72 * (y0 + t.tile_size - t.overlap), HeightPx72(page, target_dpi)) >>

\* "Calculate tile bounds": x0, y0, x1, y1 of grid cell (tx, ty), in 72nds of
\* a pixel (x1 and y1 are clipped to the page and need not be whole pixels).
TileBounds(t, page, target_dpi, tx, ty) ==
    LET x0 == tx * (t.tile_size - t.overlap)
        y0 == ty * (t.tile_size - t.overlap)
    IN  << 72 * x0,
           72 * y0,
           Min(72 * (x0 + t.tile_size), WidthPx72(page, target_dpi)),
           Min(72 * (y0 + t.tile_size), HeightPx72(page, target_dpi)) >>

\* Faulty variant of RectPts: pixels scaled up by the DPI ratio.
RectPtsScaledUp(px72, target_dpi) ==
    [c \in 1..4 |-> << px72[c] * target_dpi, 72 * 72 >>]

\* "Convert back to PDF points for clipping": (x / target_dpi) * 72.0 for
\* each bound x = px72 / 72, as rationals << numerator, denominator >>.
RectPts(px72, target_dpi) ==
    [c \in 1..4 |-> << px72[c] * 72, 72 * target_dpi >>]

(***************************************************************************)
(* StreamingProcessor.process: tile-local to global pixel coordinates.     *)
(***************************************************************************)
\* Faulty variant of TileOffset: the tile edge as the stride, the overlap forgotten.
TileOffsetNoOverlap(t, g) == g * t.tile_size

\* tile_x = tile["grid_pos"][0] * (self.tiler.tile_size - self.tiler.overlap)
TileOffset(t, g) == g * (t.tile_size - t.overlap)

\* global_bbox of one detection of the tile at grid_pos; det['bbox'] = global_bbox
AdjustToGlobal(t, grid_pos, det) ==
    LET tile_x == TileOffset(t, grid_pos[1])
        tile_y == TileOffset(t, grid_pos[2])
    IN  [det EXCEPT !.bbox = << det.bbox[1] + tile_x, det.bbox[2] + tile_y,
                                det.bbox[3] + tile_x, det.bbox[4] + tile_y >>]

(***************************************************************************)
(* SpatialAlignmentEngine and HybridFusionPipeline.                        *)
(* A scale factor and a point coordinate are rationals <<num, den>>.       *)
(***************************************************************************)
\* SpatialAlignmentEngine.__init__: dpi = 72, scale_factor = 1.0
NewAligner == [dpi |-> DEFAULT_DPI, scale_factor |-> <<1, 1>>]

\* set_dpi: self.dpi = dpi; self.scale_factor = dpi / 72.0
set_dpi(a, dpi) == [dpi |-> dpi, scale_factor |-> <<dpi, 72>>]

\* Coordinates of the conversions below are rationals << numerator,
\* denominator >>, as scale_factor is.
\* pixel_to_point: [c / self.scale_factor for c in pixel_coords]
pixel_to_point(a, pixel_coords) ==
    [i \in DOMAIN pixel_coords |->
        << pixel_coords[i][1] * a.scale_factor[2],
           pixel_coords[i][2] * a.scale_factor[1] >>]

\* Faulty variant of point_to_pixel: dividing by the scale factor.
point_to_pixel_dividing(a, point_coords) ==
    [i \in DOMAIN point_coords |->
        << point_coords[i][1] * a.scale_factor[2],
           point_coords[i][2] * a.scale_factor[1] >>]

\* point_to_pixel: [c * self.scale_factor for c in point_coords]
point_to_pixel(a, point_coords) ==
    [i \in DOMAIN point_coords |->
        << point_coords[i][1] * a.scale_factor[1],
           point_coords[i][2] * a.scale_factor[2] >>]

\* bbox_pixel_to_point: [c / self.scale_factor for c in bbox]
bbox_pixel_to_point(a, bbox) ==
    [i \in DOMAIN bbox |-> << bbox[i] * a.scale_factor[2], a.scale_factor[1] >>]

\* Faulty variant of MetadataDpi: the metadata is not read.
MetadataDpiIgnored(metadata) == DEFAULT_DPI

\* metadata.get("dpi", 72)
MetadataDpi(metadata) ==
    IF "dpi" \in DOMAIN metadata THEN metadata.dpi ELSE 72

\* _normalize_detections: a new dict per detection, bbox in PDF points.
normalize_detections(a, detections) ==
    [i \in DOMAIN detections |->
        [type |-> detections[i].type,
         confidence |-> detections[i].confidence,
         bbox |-> bbox_pixel_to_point(a, detections[i].bbox)]]

\* Faulty variant of refine_with_vectors: a detection equal to an earlier one is
\* merged into it.
refine_with_vectors_merging(detections, vector_data) ==
    LET RECURSIVE keep(_)
        keep(n) ==
            IF n = 0 THEN << >>
            ELSE IF \E j \in 1..(n - 1) : detections[j] = detections[n]
                 THEN keep(n - 1)
                 ELSE Append(keep(n - 1),
                             [type |-> detections[n].type,
                              confidence |-> detections[n].confidence,
                              bbox |-> detections[n].bbox,
                              geometry_source |-> "ml_approximate"])
    IN  keep(Len(detections))

\* _refine_with_vectors: every detection is passed through and tagged.
refine_with_vectors(detections, vector_data) ==
    [i \in DOMAIN detections |->
        [type |-> detections[i].type,
         confidence |-> detections[i].confidence,
         bbox |-> detections[i].bbox,
         geometry_source |-> "ml_approximate"]]

\* Faulty variant of fuse: the detections are normalized before the aligner is given
\* the call's dpi.
fuse_late_set_dpi(a, vector_data, detections, metadata) ==
    LET normalized_detections == normalize_detections(a, detections)
    IN  [aligner |-> set_dpi(a, MetadataDpi(metadata)),
         detections |-> detections,
         result |-> [elements |-> refine_with_vectors(normalized_detections, vector_data),
                     raw_vectors |-> vector_data,
                     metadata |-> metadata]]

\* fuse: the aligner it leaves behind, the caller's list as the call leaves
\* it (_normalize_detections appends new dicts and _refine_with_vectors
\* writes geometry_source into those), and the dict it returns.
fuse(a, vector_data, detections, metadata) ==
    LET a2 == set_dpi(a, MetadataDpi(metadata))
        normalized_detections == normalize_detections(a2, detections)
    IN  [aligner |-> a2,
         detections |-> detections,
         result |-> [elements |-> refine_with_vectors(normalized_detections, vector_data),
                     raw_vectors |-> vector_data,
                     metadata |-> metadata]]

(***************************************************************************)
(* State.                                                                  *)
(***************************************************************************)
VARIABLES
    pdf,            \* the input file: exists, size (bytes), what opening it does, its page
    pc,             \* position of the job inside run_pipeline
    monitoring,     \* ResourceMonitor.monitoring
    openAttempts,   \* number of fitz.open calls made
    docOpen,        \* a document handle opened by safe_render is still open
    secure_context, \* what safe_render returned: method and dpi
    safe_dpi,       \* safe_render's local: what _calculate_forced_dpi returned
    error,          \* the exception run_pipeline is propagating, or "none"
    vector_data,    \* process(): the paths VectorProcessor.extract returned
    ml_detections,  \* process(): the accumulated detections
    det_origin,     \* for each entry of ml_detections: the detection as the model
                    \* returned it and the tile it was returned for
    tiler,          \* StreamingProcessor.tiler: tile_size and overlap
    detector,       \* StreamingProcessor.ml_detector: the lists one detect call may return
    security,       \* PipelineOrchestrator.security: the SecurePDFRenderer and its limits
    gen,            \* frame of the render_tiled generator: pc, tx, ty, pix, n
    con,            \* frame of the consuming loop in process(): tile, pix
    tiles,          \* the tiles yielded so far, in order
    aligner,        \* HybridFusionPipeline.aligner: dpi and scale_factor
    fused,          \* what fuse returned to run_pipeline
    fuseLog,        \* the fuse calls made: arguments, aligner dpi found, elements
    events,         \* the job's calls in the order made: op, dpi passed, ok
    result,         \* what run_pipeline returned to its caller
    trip,           \* the last coordinate conversions made on the aligner
    peak_memory_mb, \* ResourceMonitor.peak_memory_mb
    loops,          \* the _monitor_loop tasks created, each "ready" (created or
                    \* woken, not yet run), "sleeping" or "done"
    samples,        \* the writes of peak_memory_mb: task, value, monitoring
    runs,           \* concurrent run_pipeline coroutines of one orchestrator:
                    \* pc, dpi, ml_detections, fused
    job_status,     \* routes.job_status[job_id] of one uploaded job
    tasks,          \* the background run_pipeline tasks of that job id
    response        \* the last answer of a download endpoint for it

vars == << pdf, pc, monitoring, openAttempts, docOpen, secure_context, safe_dpi, error,
           vector_data, ml_detections, det_origin, tiler, detector, security,
           gen, con, tiles, aligner, fused, fuseLog, events, result, trip,
           peak_memory_mb, loops, samples, runs, job_status, tasks, response >>

\* What the orchestrator's constructor fixes for all its jobs.
config == << tiler, detector, security >>

tilingVars == << ml_detections, det_origin, gen, con, tiles >>
fusionVars == << aligner, fused, fuseLog >>

\* What lives beside the job: the monitor's background tasks.
offJob == << peak_memory_mb, loops, samples >>

\* The HTTP front end's record of one job.
http == << job_status, tasks, response >>

\* What lies outside a single run_pipeline call.
front == << runs, http >>

(***************************************************************************)
(* Inputs.                                                                 *)
(***************************************************************************)
\* Page sizes in points (with the DPI the ladder gives them).  On each of
\* them the double-precision evaluation of the ladder, of the estimate and of
\* the grid size gives the outcome of the exact one.
Pages ==
    { [w |-> 612,  h |-> 792],    \* letter: 300
      [w |-> 1728, h |-> 1296],   \* 24 x 18 in: 200
      [w |-> 2592, h |-> 1728],   \* 36 x 24 in: 150
      [w |-> 3600, h |-> 3600],   \* 50 x 50 in: 100, exactly 25,000,000 pixels
      [w |-> 5000, h |-> 5000],   \* 72, exactly 25,000,000 pixels
      [w |-> 5001, h |-> 5000],   \* no candidate: 3 x 3 tiles
      [w |-> 7488, h |-> 3744] }  \* no candidate: 4 x 2 tiles, edges on the grid

\* File sizes in bytes: 1 MB, exactly 100 MB, one byte more, 150 MB.
FileSizes == { 1048576, 104857600, 104857601, 157286400 }

\* What fitz.open(pdf_path) / doc[0] do: both succeed, open raises, open
\* succeeds and doc[0] raises.
OpenOutcomes == { "ok", "corrupt", "no_page" }

\* Wall-clock seconds the open block takes.
OpenSeconds == { 1, 31 }

\* Vector paths of the page: type and rect (points).
PathLists ==
    { << >>,
      << [type |-> "s", rect |-> <<12, 12, 48, 48>>] >>,
      << [type |-> "f", rect |-> <<0, 0, 600, 600>>],
         [type |-> "s", rect |-> <<3760, 1890, 3790, 1920>>] >> }

\* Detections the model may return for an image: type, confidence (percent),
\* bbox [x1, y1, x2, y2] in pixels of that image.
LocalDets ==
    { [type |-> "wall", confidence |-> 90, bbox |-> <<10, 10, 50, 50>>],
      [type |-> "door", confidence |-> 55, bbox |-> <<1900, 40, 1990, 400>>] }

\* One call of the detection model returns a list of at most one detection.
DetLists == { << >> } \cup { << d >> : d \in LocalDets }

NoContext == [method |-> "none", dpi |-> None]
NoTile == [pixmap |-> 0, grid_pos |-> <<0, 0>>, px72 |-> <<0, 0, 0, 0>>,
           rect |-> << >>]
NoResult == [elements |-> << >>, raw_vectors |-> << >>, metadata |-> << >>]
NewRun == [pc |-> "safe_render", dpi |-> None, ml_detections |-> << >>,
           fused |-> NoResult]
NoJobStatus == [status |-> "absent", progress |-> 0, result |-> None,
                error |-> None]
NoResponse == [file |-> "none", code |-> 0, status |-> "none"]
NoReturn == [status |-> "none", files |-> << >>,
             stats |-> [method |-> "none", dpi |-> None, element_count |-> 0]]
NoTrip == [x |-> << >>, points |-> << >>, pixels |-> << >>,
           there_and_back |-> << >>, back_and_there |-> << >>]

\* One entry of the call log.
Event(op, dpi, ok) == [op |-> op, dpi |-> dpi, ok |-> ok]

(***************************************************************************)
(* Initial state: PipelineOrchestrator() constructed, run_pipeline called. *)
(***************************************************************************)
JobInit ==
    /\ pc = "start"
    /\ monitoring = FALSE
    /\ openAttempts = 0
    /\ docOpen = FALSE
    /\ secure_context = NoContext
    /\ safe_dpi = None
    /\ error = "none"
    /\ vector_data = << >>
    /\ ml_detections = << >>
    /\ det_origin = << >>
    /\ gen = [pc |-> "none", tx |-> 0, ty |-> 0, pix |-> 0, n |-> 0]
    /\ con = [tile |-> NoTile, pix |-> 0]
    /\ tiles = << >>
    /\ aligner = NewAligner
    /\ fused = NoResult
    /\ fuseLog = << >>
    /\ events = << >>
    /\ result = NoReturn
    /\ trip = NoTrip
    /\ peak_memory_mb = 0
    /\ loops = << >>
    /\ samples = << >>
    /\ runs = [j \in 1..MaxRuns |-> NewRun]
    /\ job_status = NoJobStatus
    /\ tasks = << >>
    /\ response = NoResponse

Init ==
    /\ pdf \in [exists : BOOLEAN, size : FileSizes, open : OpenOutcomes,
                open_seconds : OpenSeconds, page : Pages, paths : PathLists]
    /\ tiler = [tile_size |-> DEFAULT_TILE_SIZE, overlap |-> DEFAULT_OVERLAP]
    /\ detector = DetLists
    /\ security = DefaultRenderer
    /\ JobInit

(***************************************************************************)
(* PipelineOrchestrator.run_pipeline, one action per step of the job.      *)
(***************************************************************************)
\* Faulty variant of Raise: the except clause logs the error and drops it.
RaiseSwallowed(e) ==
    /\ error' = "none"
    /\ pc' = "finally"

\* An exception leaves the try block: `except` logs and re-raises, and the
\* `finally` block runs next.
Raise(e) ==
    /\ error' = e
    /\ pc' = "finally"

\* monitor = ResourceMonitor(); monitor.start()
Start ==
    /\ pc = "start"
    /\ monitoring' = TRUE
    /\ pc' = "admission"
    /\ UNCHANGED << front, offJob, pdf, openAttempts, docOpen, secure_context, safe_dpi, error,
                    vector_data, config, tilingVars, fusionVars, events, result,
                    trip >>

\* Stage 1: secure_context = await self.security.safe_render(pdf_path).
\* safe_render has no await that suspends, so it is one step.
SafeRender ==
    /\ pc = "admission"
    /\ IF ~pdf.exists
       THEN /\ Raise("FileNotFoundError")
            /\ UNCHANGED << openAttempts, docOpen, secure_context, safe_dpi >>
       ELSE IF FileTooLarge(security, pdf.size)
       THEN /\ Raise("SecurityError")
            /\ UNCHANGED << openAttempts, docOpen, secure_context, safe_dpi >>
       ELSE /\ openAttempts' = openAttempts + 1
            /\ IF TimeoutDelivered(security, pdf.open_seconds)
               THEN /\ Raise("SecurityError")
                    /\ UNCHANGED << docOpen, secure_context, safe_dpi >>
               ELSE IF pdf.open = "corrupt"
               THEN /\ Raise("SecurityError")
                    /\ UNCHANGED << docOpen, secure_context, safe_dpi >>
               ELSE IF pdf.open = "no_page"
               THEN /\ docOpen' = TRUE
                    /\ Raise("SecurityError")
                    /\ UNCHANGED << secure_context, safe_dpi >>
               ELSE /\ docOpen' = TRUE
                    /\ safe_dpi' = calculate_forced_dpi(security, pdf.page)
                    /\ secure_context' = Strategy(security, pdf.page)
                    /\ pc' = "extract"
                    /\ UNCHANGED error
    /\ events' = Append(events,
                        Event("safe_render", secure_context'.dpi, error' = "none"))
    /\ UNCHANGED << front, offJob, pdf, monitoring, vector_data, config, tilingVars, fusionVars,
                    result, trip >>

\* Faulty variant of Extract: vectors are extracted for a direct render only.
ExtractDirectOnly ==
    /\ pc = "extract"
    /\ \/ /\ IF secure_context.method = "direct"
             THEN /\ vector_data' = pdf.paths
                  /\ pc' = "direct_render"
                  /\ events' = Append(events, Event("extract", None, TRUE))
                  /\ UNCHANGED gen
             ELSE /\ pc' = "tiling"
                  /\ gen' = [pc |-> "head", tx |-> 0, ty |-> 0, pix |-> 0, n |-> 0]
                  /\ UNCHANGED << vector_data, events >>
          /\ UNCHANGED error
       \/ /\ Raise("Exception")
          /\ events' = Append(events, Event("extract", None, FALSE))
          /\ UNCHANGED << vector_data, gen >>
    /\ UNCHANGED << front, offJob, pdf, monitoring, openAttempts, docOpen, secure_context,
                    safe_dpi, config,
                    ml_detections, det_origin, con, tiles, fusionVars, result, trip >>

\* Stage 2, process(): vector_data = self.vector_processor.extract(page),
\* then the branch on secure_context["method"].
Extract ==
    /\ pc = "extract"
    /\ \/ /\ vector_data' = pdf.paths
          /\ IF secure_context.method = "direct"
             THEN pc' = "direct_render" /\ UNCHANGED gen
             ELSE /\ pc' = "tiling"
                  /\ gen' = [pc |-> "head", tx |-> 0, ty |-> 0, pix |-> 0, n |-> 0]
          /\ UNCHANGED error
       \/ /\ Raise("Exception")
          /\ UNCHANGED << vector_data, gen >>
    /\ events' = Append(events, Event("extract", None, error' = "none"))
    /\ UNCHANGED << front, offJob, pdf, monitoring, openAttempts, docOpen, secure_context,
                    safe_dpi, config,
                    ml_detections, det_origin, con, tiles, fusionVars, result, trip >>

\* method == "direct": pix = page.get_pixmap(dpi=dpi), up to the await of detect.
DirectRender ==
    /\ pc = "direct_render"
    /\ con' = [con EXCEPT !.pix = 1]
    /\ pc' = "direct_detect"
    /\ events' = Append(events, Event("render", secure_context.dpi, TRUE))
    /\ UNCHANGED << front, offJob, pdf, monitoring, openAttempts, docOpen, secure_context,
                    safe_dpi, error,
                    vector_data, config, ml_detections, det_origin, gen, tiles,
                    fusionVars, result, trip >>

\* detections = await self.ml_detector.detect(img_array, dpi);
\* ml_detections.extend(detections); del pix; process returns.
DirectDetect ==
    /\ pc = "direct_detect"
    /\ \/ \E dets \in detector :
             /\ ml_detections' = ml_detections \o dets
             /\ det_origin' = det_origin \o
                    [i \in DOMAIN dets |-> [local |-> dets[i], tile |-> NoTile]]
             /\ con' = [con EXCEPT !.pix = 0]
             /\ pc' = "fuse"
             /\ UNCHANGED error
       \/ /\ Raise("Exception")
          /\ UNCHANGED << ml_detections, det_origin, con >>
    /\ events' = Append(events, Event("detect", secure_context.dpi, error' = "none"))
    /\ UNCHANGED << front, offJob, pdf, monitoring, openAttempts, docOpen, secure_context, safe_dpi,
                    vector_data, config, gen, tiles, fusionVars, result, trip >>

(***************************************************************************)
(* method == "mandatory_tiling": the render_tiled generator and the        *)
(* `async for tile in ...` loop of process() that consumes it.             *)
(***************************************************************************)
TilingDpi == secure_context.dpi

\* render_tiled, lines "Calculate tile bounds" to "Render":
\* pix = page.get_pixmap(dpi=target_dpi, clip=rect_pts) for grid cell (tx, ty).
TileRender ==
    /\ pc = "tiling"
    /\ gen.pc = "head"
    /\ gen.tx < tiles_x(tiler, pdf.page, TilingDpi)
    /\ gen.ty < tiles_y(tiler, pdf.page, TilingDpi)
    /\ gen' = [gen EXCEPT !.pc = "rendered", !.pix = gen.n + 1, !.n = gen.n + 1]
    /\ events' = Append(events, Event("render", TilingDpi, TRUE))
    /\ UNCHANGED << front, offJob, pdf, pc, monitoring, openAttempts, docOpen, secure_context, safe_dpi,
                    error, vector_data, config, ml_detections, det_origin, con,
                    tiles, fusionVars, result, trip >>

\* render_tiled yields {"pixmap": pix, "rect": rect_pts, "grid_pos": (tx, ty)};
\* the loop binds tile, then pix = tile["pixmap"], and awaits detect.
TileYield ==
    /\ pc = "tiling"
    /\ gen.pc = "rendered"
    /\ LET tile == [pixmap |-> gen.pix,
                    grid_pos |-> <<gen.tx, gen.ty>>,
                    px72 |-> TileBounds(tiler, pdf.page, TilingDpi, gen.tx, gen.ty),
                    rect |-> RectPts(TileBounds(tiler, pdf.page, TilingDpi,
                                                gen.tx, gen.ty), TilingDpi)]
       IN  /\ con' = [tile |-> tile, pix |-> tile.pixmap]
           /\ tiles' = Append(tiles, tile)
    /\ gen' = [gen EXCEPT !.pc = "yielded"]
    /\ UNCHANGED << front, offJob, pdf, pc, monitoring, openAttempts, docOpen, secure_context, safe_dpi,
                    error, vector_data, config, ml_detections, det_origin,
                    fusionVars, events, result, trip >>

\* tile_dets = await self.ml_detector.detect(img_array, dpi), then the loop
\* "Adjust coordinates to global space" over tile_dets.
TileDetect ==
    /\ pc = "tiling"
    /\ gen.pc = "yielded"
    /\ \/ \E tile_dets \in detector :
             /\ Len(ml_detections) + Len(tile_dets) <= MaxDets
             /\ ml_detections' = ml_detections \o
                    [i \in DOMAIN tile_dets |->
                        AdjustToGlobal(tiler, con.tile.grid_pos, tile_dets[i])]
             /\ det_origin' = det_origin \o
                    [i \in DOMAIN tile_dets |-> [local |-> tile_dets[i], tile |-> con.tile]]
             /\ gen' = [gen EXCEPT !.pc = "consumed"]
             /\ UNCHANGED << pc, error >>
       \/ /\ Raise("Exception")
          /\ UNCHANGED << ml_detections, det_origin, gen >>
    /\ events' = Append(events, Event("detect", TilingDpi, error' = "none"))
    /\ UNCHANGED << front, offJob, pdf, monitoring, openAttempts, docOpen, secure_context, safe_dpi,
                    vector_data, config, con, tiles, fusionVars, result, trip >>

\* Faulty variant of TileCleanup: the generator frees the buffer and goes on
\* to the next grid cell without the sleep.
TileCleanupNoSleep ==
    /\ pc = "tiling"
    /\ gen.pc = "consumed"
    /\ gen' = [gen EXCEPT !.pc = "sleeping", !.pix = 0]
    /\ UNCHANGED << front, offJob, pdf, pc, monitoring, openAttempts, docOpen, secure_context, safe_dpi,
                    error, vector_data, config, ml_detections, det_origin, con,
                    tiles, fusionVars, events, result, trip >>

\* The loop asks for the next tile and render_tiled resumes after its yield:
\* del pix; gc.collect(); await asyncio.sleep(0), which hands control to the
\* event loop.
TileCleanup ==
    /\ pc = "tiling"
    /\ gen.pc = "consumed"
    /\ gen' = [gen EXCEPT !.pc = "sleeping", !.pix = 0]
    /\ events' = Append(events, Event("suspend", None, TRUE))
    /\ UNCHANGED << front, offJob, pdf, pc, monitoring, openAttempts, docOpen, secure_context, safe_dpi,
                    error, vector_data, config, ml_detections, det_origin, con,
                    tiles, fusionVars, result, trip >>

\* Faulty variant of TileAdvance: the grid is walked column by column.
TileAdvanceColumnMajor ==
    /\ pc = "tiling"
    /\ gen.pc = "sleeping"
    /\ IF gen.ty + 1 < tiles_y(tiler, pdf.page, TilingDpi)
       THEN gen' = [gen EXCEPT !.pc = "head", !.ty = gen.ty + 1] /\ UNCHANGED pc
       ELSE IF gen.tx + 1 < tiles_x(tiler, pdf.page, TilingDpi)
       THEN gen' = [gen EXCEPT !.pc = "head", !.ty = 0, !.tx = gen.tx + 1] /\ UNCHANGED pc
       ELSE gen' = [gen EXCEPT !.pc = "done"] /\ pc' = "fuse"
    /\ UNCHANGED << front, offJob, pdf, monitoring, openAttempts, docOpen, secure_context,
                    safe_dpi, error, vector_data, config, ml_detections,
                    det_origin, con, tiles, fusionVars, events, result, trip >>

\* render_tiled wakes from the sleep and steps `for tx` / `for ty`; when both
\* ranges are exhausted the generator ends, the loop ends and process returns.
TileAdvance ==
    /\ pc = "tiling"
    /\ gen.pc = "sleeping"
    /\ IF gen.tx + 1 < tiles_x(tiler, pdf.page, TilingDpi)
       THEN gen' = [gen EXCEPT !.pc = "head", !.tx = gen.tx + 1] /\ UNCHANGED pc
       ELSE IF gen.ty + 1 < tiles_y(tiler, pdf.page, TilingDpi)
       THEN gen' = [gen EXCEPT !.pc = "head", !.tx = 0, !.ty = gen.ty + 1] /\ UNCHANGED pc
       ELSE gen' = [gen EXCEPT !.pc = "done"] /\ pc' = "fuse"
    /\ UNCHANGED << front, offJob, pdf, monitoring, openAttempts, docOpen, secure_context, safe_dpi,
                    error, vector_data, config, ml_detections, det_origin, con,
                    tiles, fusionVars, events, result, trip >>

\* Pixel buffers some frame of the job still references.
LiveBuffers == { gen.pix, con.tile.pixmap, con.pix } \ { 0 }

(***************************************************************************)
(* Fusion and the stages after it.                                         *)
(***************************************************************************)
\* One call of HybridFusionPipeline.fuse on the pipeline's aligner.
FuseCall(v, d, m) ==
    LET r == fuse(aligner, v, d, m)
    IN  /\ aligner' = r.aligner
        /\ fused' = r.result
        /\ fuseLog' = Append(fuseLog,
               [vector_data |-> v, ml_detections |-> d, metadata |-> m,
                found_dpi |-> aligner.dpi, elements |-> r.result.elements,
                caller_after |-> r.detections])

\* Stage 3: fused_data = await self.fusion.fuse(raw_results["vectors"],
\* raw_results["ml_detections"], raw_results["metadata"]), with the metadata
\* {"dpi": dpi, "method": method} process() returned.
Fuse ==
    /\ pc = "fuse"
    /\ FuseCall(vector_data, ml_detections,
                [dpi |-> secure_context.dpi, method |-> secure_context.method])
    /\ pc' = "geometry"
    /\ events' = Append(events, Event("fuse", secure_context.dpi, TRUE))
    /\ UNCHANGED << front, offJob, pdf, monitoring, openAttempts, docOpen, secure_context,
                    safe_dpi, error,
                    vector_data, config, tilingVars, result, trip >>

\* fuse raises after its set_dpi (a detection without the keys that
\* _normalize_detections reads): nothing is returned to run_pipeline.
FuseFails ==
    /\ pc = "fuse"
    /\ aligner' = set_dpi(aligner, secure_context.dpi)
    /\ Raise("Exception")
    /\ events' = Append(events, Event("fuse", secure_context.dpi, FALSE))
    /\ UNCHANGED << front, offJob, pdf, monitoring, openAttempts, docOpen, secure_context, safe_dpi,
                    vector_data, config, tilingVars, fused, fuseLog, result, trip >>

\* Stages 4-5: recipe = await self.geometry_gen.generate(formatted_elements)
Geometry ==
    /\ pc = "geometry"
    /\ \/ pc' = "export" /\ UNCHANGED error
       \/ Raise("Exception")
    /\ UNCHANGED << front, offJob, pdf, monitoring, openAttempts, docOpen, secure_context, safe_dpi,
                    vector_data, config, tilingVars, fusionVars, events, result,
                    trip >>

\* Stage 6: the two exporter calls, then the return statement.
Export ==
    /\ pc = "export"
    /\ \/ /\ result' = [status |-> "completed",
                         files |-> << "rvt", "gltf" >>,
                         stats |-> [method |-> secure_context.method,
                                    dpi |-> secure_context.dpi,
                                    element_count |-> Len(fused.elements)]]
          /\ pc' = "finally"
          /\ UNCHANGED error
       \/ /\ Raise("Exception")
          /\ UNCHANGED result
    /\ UNCHANGED << front, offJob, pdf, monitoring, openAttempts, docOpen, secure_context, safe_dpi,
                    vector_data, config, tilingVars, fusionVars, events, trip >>

\* Faulty variant of Finally: the monitor is stopped on the success path only.
FinallyOnSuccessOnly ==
    /\ pc = "finally"
    /\ monitoring' = IF error = "none" THEN FALSE ELSE monitoring
    /\ pc' = IF error = "none" THEN "returned" ELSE "raised"
    /\ UNCHANGED << front, offJob, pdf, openAttempts, docOpen, secure_context, safe_dpi, error,
                    vector_data, config, tilingVars, fusionVars, events, result,
                    trip >>

\* finally: monitor.stop().  The close of the document is commented out.
Finally ==
    /\ pc = "finally"
    /\ monitoring' = FALSE
    /\ pc' = IF error = "none" THEN "returned" ELSE "raised"
    /\ UNCHANGED << front, offJob, pdf, openAttempts, docOpen, secure_context, safe_dpi, error,
                    vector_data, config, tilingVars, fusionVars, events, result,
                    trip >>

Next ==
    \/ Start
    \/ SafeRender
    \/ Extract
    \/ DirectRender
    \/ DirectDetect
    \/ TileRender
    \/ TileYield
    \/ TileDetect
    \/ TileCleanup
    \/ TileAdvance
    \/ Fuse
    \/ FuseFails
    \/ Geometry
    \/ Export
    \/ Finally

Spec == Init /\ [][Next]_vars

(***************************************************************************)
(* Admission alone: the first stage of a job on an orchestrator whose      *)
(* SecurePDFRenderer has the default limits or a lower MAX_MEMORY_MB.      *)
(***************************************************************************)
Renderers ==
    { DefaultRenderer,
      [DefaultRenderer EXCEPT !.MAX_MEMORY_MB = 100],
      [DefaultRenderer EXCEPT !.MAX_MEMORY_MB = 64] }

AdmitInit ==
    /\ pdf \in [exists : BOOLEAN, size : FileSizes, open : OpenOutcomes,
                open_seconds : OpenSeconds, page : Pages, paths : {<< >>}]
    /\ tiler = [tile_size |-> DEFAULT_TILE_SIZE, overlap |-> DEFAULT_OVERLAP]
    /\ detector = DetLists
    /\ security \in Renderers
    /\ JobInit

AdmitNext ==
    \/ Start
    \/ SafeRender

AdmitSpec == AdmitInit /\ [][AdmitNext]_vars

(***************************************************************************)
(* Admission under the class limits for a sweep of page sizes.             *)
(***************************************************************************)
\* Page edges in points, 1 in to 104 in.
PageEdges == { 72, 612, 792, 1224, 1728, 2592, 3600, 5000, 5001, 7488 }

SweepInit ==
    /\ pdf \in [exists : {TRUE}, size : {1048576}, open : {"ok"},
                open_seconds : {1}, page : [w : PageEdges, h : PageEdges],
                paths : {<< >>}]
    /\ tiler = [tile_size |-> DEFAULT_TILE_SIZE, overlap |-> DEFAULT_OVERLAP]
    /\ detector = DetLists
    /\ security = DefaultRenderer
    /\ JobInit

SweepSpec == SweepInit /\ [][AdmitNext]_vars

(***************************************************************************)
(* One job on an orchestrator whose renderer has MAX_MEMORY_MB = 64: pages *)
(* that are rendered direct at 300 and at 72 DPI, and pages that are tiled *)
(* at 200 and at 150 DPI.                                                  *)
(***************************************************************************)
LowMemoryPages ==
    { [w |-> 612,  h |-> 792],    \* direct at 300
      [w |-> 3600, h |-> 3600],   \* direct at 72
      [w |-> 1728, h |-> 1296],   \* 3 x 2 tiles at 200
      [w |-> 2592, h |-> 1728] }  \* 3 x 2 tiles at 150

LowMemoryInit ==
    /\ pdf \in [exists : {TRUE}, size : {1048576}, open : {"ok"},
                open_seconds : {1}, page : LowMemoryPages, paths : PathLists]
    /\ tiler = [tile_size |-> DEFAULT_TILE_SIZE, overlap |-> DEFAULT_OVERLAP]
    /\ detector = DetLists
    /\ security = [DefaultRenderer EXCEPT !.MAX_MEMORY_MB = 64]
    /\ JobInit

LowMemorySpec == LowMemoryInit /\ [][Next]_vars

(***************************************************************************)
(* The tiled track alone: StreamingProcessor.process called with a         *)
(* mandatory_tiling context on a small page, for every configuration       *)
(* TiledRenderer(tile_size_px, overlap_px) with tile_size > overlap >= 0    *)
(* and a detector that finds nothing.                                      *)
(***************************************************************************)
TilerPages == [w : 1..MaxTilerPts, h : 1..MaxTilerPts]

TilerConfigs ==
    { t \in [tile_size : 1..MaxTilerTile, overlap : 0..MaxTilerTile] :
        t.tile_size > t.overlap }

\* Target DPIs: page edges of whole and of half pixels.
TilerDpis == { 36, 72, 144 }

TilerInit ==
    /\ pdf \in [exists : {TRUE}, size : {1048576}, open : {"ok"},
                open_seconds : {1}, page : TilerPages, paths : {<< >>}]
    /\ tiler \in TilerConfigs
    /\ detector = { << >> }
    /\ security = DefaultRenderer
    /\ pc = "tiling"
    /\ monitoring = FALSE
    /\ openAttempts = 1
    /\ docOpen = TRUE
    /\ secure_context \in [method : {"mandatory_tiling"}, dpi : TilerDpis]
    /\ safe_dpi = None
    /\ error = "none"
    /\ vector_data = << >>
    /\ ml_detections = << >>
    /\ det_origin = << >>
    /\ gen = [pc |-> "head", tx |-> 0, ty |-> 0, pix |-> 0, n |-> 0]
    /\ con = [tile |-> NoTile, pix |-> 0]
    /\ tiles = << >>
    /\ aligner = NewAligner
    /\ fused = NoResult
    /\ fuseLog = << >>
    /\ events = << Event("extract", None, TRUE) >>
    /\ result = NoReturn
    /\ trip = NoTrip
    /\ peak_memory_mb = 0
    /\ loops = << >>
    /\ samples = << >>
    /\ runs = [j \in 1..MaxRuns |-> NewRun]
    /\ job_status = NoJobStatus
    /\ tasks = << >>
    /\ response = NoResponse

TilerNext ==
    \/ TileRender
    \/ TileYield
    \/ TileDetect
    \/ TileCleanup
    \/ TileAdvance

TilerSpec == TilerInit /\ [][TilerNext]_vars

\* The same, with the event loop running the task whenever it can run and
\* every detection call returning or raising.
TilerFairSpec == TilerSpec /\ WF_vars(TilerNext)

(***************************************************************************)
(* Fusion alone: a caller makes up to MaxFuseCalls calls of fuse, on the   *)
(* same HybridFusionPipeline or on a fresh one, with arguments of its      *)
(* choice.                                                                 *)
(***************************************************************************)
FusePaths == { << >>, << [type |-> "s", rect |-> <<12, 12, 48, 48>>] >> }

\* Detection lists in global pixel space.
FuseDetLists ==
    { << >>,
      << [type |-> "wall", confidence |-> 90, bbox |-> <<10, 10, 50, 50>>] >>,
      << [type |-> "wall", confidence |-> 90, bbox |-> <<10, 10, 50, 50>>],
         [type |-> "door", confidence |-> 55, bbox |-> <<3754, 1882, 3794, 1922>>] >>,
      << [type |-> "wall", confidence |-> 90, bbox |-> <<10, 10, 50, 50>>],
         [type |-> "wall", confidence |-> 90, bbox |-> <<10, 10, 50, 50>>] >> }

\* Metadata dicts, one of them without a "dpi" key.
FuseMetadata ==
    { [dpi |-> 72, method |-> "mandatory_tiling"],
      [dpi |-> 300, method |-> "direct"],
      [method |-> "direct"] }

FuseInit ==
    /\ pdf = [exists |-> TRUE, size |-> 1048576, open |-> "ok", open_seconds |-> 1,
              page |-> [w |-> 612, h |-> 792], paths |-> << >>]
    /\ tiler = [tile_size |-> DEFAULT_TILE_SIZE, overlap |-> DEFAULT_OVERLAP]
    /\ detector = DetLists
    /\ security = DefaultRenderer
    /\ JobInit

\* await pipeline.fuse(vector_data, ml_detections, metadata)
FuseAgain ==
    /\ Len(fuseLog) < MaxFuseCalls
    /\ \E v \in FusePaths, d \in FuseDetLists, m \in FuseMetadata : FuseCall(v, d, m)
    /\ UNCHANGED << front, offJob, pdf, pc, monitoring, openAttempts, docOpen, secure_context, safe_dpi,
                    error, vector_data, config, tilingVars, events, result, trip >>

\* pipeline = HybridFusionPipeline(): a new SpatialAlignmentEngine.
NewPipeline ==
    /\ Len(fuseLog) < MaxFuseCalls
    /\ aligner' = NewAligner
    /\ UNCHANGED << front, offJob, pdf, pc, monitoring, openAttempts, docOpen, secure_context, safe_dpi,
                    error, vector_data, config, tilingVars, fused, fuseLog,
                    events, result, trip >>

FuseNext ==
    \/ FuseAgain
    \/ NewPipeline

FuseSpec == FuseInit /\ [][FuseNext]_vars

(***************************************************************************)
(* The ResourceMonitor alone: a caller makes any sequence of start() and   *)
(* stop() calls on one monitor while the event loop runs the               *)
(* _monitor_loop tasks that start() created.  A run of a task goes from    *)
(* one suspension to the next: the `while` test, the sample, the write of  *)
(* peak_memory_mb and the sleep; how long the sleep lasts is left open.    *)
(***************************************************************************)
\* process.memory_info().rss / (1024 * 1024), as whole megabytes.
MemorySamples == { 100, 300, 200 }

Max(a, b) == IF a >= b THEN a ELSE b

MonitorInit == FuseInit

\* start(): self.monitoring = True; asyncio.create_task(self._monitor_loop())
MonitorStart ==
    /\ Len(loops) < MaxStarts
    /\ monitoring' = TRUE
    /\ loops' = Append(loops, "ready")
    /\ UNCHANGED << front, peak_memory_mb, samples, pdf, pc, openAttempts, docOpen,
                    secure_context, safe_dpi, error, vector_data, config,
                    tilingVars, fusionVars, events, result, trip >>

\* stop(): self.monitoring = False
MonitorStop ==
    /\ monitoring' = FALSE
    /\ UNCHANGED << front, offJob, pdf, pc, openAttempts, docOpen, secure_context,
                    safe_dpi, error, vector_data, config, tilingVars,
                    fusionVars, events, result, trip >>

\* Faulty variant of LoopRuns: the sample is taken before the flag is read.
LoopRunsSampleFirst(i) ==
    /\ loops[i] # "done"
    /\ Len(samples) < MaxSamples
    /\ \E memory_mb \in MemorySamples :
          /\ peak_memory_mb' = Max(peak_memory_mb, memory_mb)
          /\ samples' = Append(samples, [task |-> i, value |-> memory_mb,
                                         monitoring |-> monitoring])
    /\ loops' = [loops EXCEPT ![i] = IF monitoring THEN "sleeping" ELSE "done"]
    /\ UNCHANGED << front, monitoring, pdf, pc, openAttempts, docOpen, secure_context,
                    safe_dpi, error, vector_data, config, tilingVars,
                    fusionVars, events, result, trip >>

\* Task i runs, for the first time or on waking from asyncio.sleep(5):
\* `while self.monitoring` ends the task, or the body samples the memory,
\* writes peak_memory_mb = max(peak_memory_mb, memory_mb) and sleeps again.
LoopRuns(i) ==
    /\ loops[i] # "done"
    /\ IF monitoring
       THEN /\ Len(samples) < MaxSamples
            /\ \E memory_mb \in MemorySamples :
                  /\ peak_memory_mb' = Max(peak_memory_mb, memory_mb)
                  /\ samples' = Append(samples, [task |-> i, value |-> memory_mb,
                                                 monitoring |-> monitoring])
            /\ loops' = [loops EXCEPT ![i] = "sleeping"]
       ELSE /\ loops' = [loops EXCEPT ![i] = "done"]
            /\ UNCHANGED << peak_memory_mb, samples >>
    /\ UNCHANGED << front, monitoring, pdf, pc, openAttempts, docOpen, secure_context,
                    safe_dpi, error, vector_data, config, tilingVars,
                    fusionVars, events, result, trip >>

\* Task i runs and psutil raises before the write: `except ...: break`.
LoopBreaks(i) ==
    /\ loops[i] # "done"
    /\ monitoring
    /\ loops' = [loops EXCEPT ![i] = "done"]
    /\ UNCHANGED << front, peak_memory_mb, samples, monitoring, pdf, pc, openAttempts,
                    docOpen, secure_context, safe_dpi, error, vector_data,
                    config, tilingVars, fusionVars, events, result, trip >>

MonitorNext ==
    \/ MonitorStart
    \/ MonitorStop
    \/ \E i \in DOMAIN loops : LoopRuns(i)
    \/ \E i \in DOMAIN loops : LoopBreaks(i)

MonitorSpec == MonitorInit /\ [][MonitorNext]_vars

\* The same, with the event loop running every task that can run.
MonitorFairSpec ==
    MonitorSpec /\ \A i \in 1..MaxStarts : WF_vars(i \in DOMAIN loops /\ LoopRuns(i))

(***************************************************************************)
(* The aligner alone: a caller sets DPIs on a SpatialAlignmentEngine and   *)
(* converts coordinate lists both ways.                                    *)
(***************************************************************************)
\* DPIs > 0 passed to set_dpi.
AlignDpis == { 1, 36, 72, 96, 150, 300 }

\* Coordinates: zero, whole, negative and fractional values.
AlignCoords == { <<0, 1>>, <<1, 1>>, <<-7, 2>>, <<1000, 3>> }

\* Coordinate lists of up to MaxCoords entries.
AlignLists == UNION { [1..n -> AlignCoords] : n \in 0..MaxCoords }

AlignInit == FuseInit

\* aligner.set_dpi(dpi)
SetDpi ==
    /\ \E dpi \in AlignDpis : aligner' = set_dpi(aligner, dpi)
    /\ UNCHANGED << front, offJob, pdf, pc, monitoring, openAttempts, docOpen, secure_context,
                    safe_dpi, error, vector_data, config, tilingVars, fused,
                    fuseLog, events, result, trip >>

\* The caller converts a list to points, to pixels, and each result back.
RoundTrip ==
    /\ \E x \in AlignLists :
          trip' = [x |-> x,
                   points |-> pixel_to_point(aligner, x),
                   pixels |-> point_to_pixel(aligner, x),
                   there_and_back |->
                       point_to_pixel(aligner, pixel_to_point(aligner, x)),
                   back_and_there |->
                       pixel_to_point(aligner, point_to_pixel(aligner, x))]
    /\ UNCHANGED << front, offJob, pdf, pc, monitoring, openAttempts, docOpen, secure_context,
                    safe_dpi, error, vector_data, config, tilingVars, fusionVars,
                    events, result >>

AlignNext ==
    \/ SetDpi
    \/ RoundTrip

AlignSpec == AlignInit /\ [][AlignNext]_vars

(***************************************************************************)
(* Several run_pipeline coroutines on one PipelineOrchestrator: they share *)
(* self.fusion and its aligner.  A step goes from one suspension of the    *)
(* coroutine to the next: safe_render, process and generate suspend, fuse  *)
(* has no await in its body and runs in one step.                          *)
(***************************************************************************)
\* DPIs safe_render gives the jobs.
RunDpis == { 72, 150, 300 }

\* What process() returns to a job as ml_detections.
RunDetLists == FuseDetLists \ { << >> }

SharedInit == FuseInit

\* secure_context = await self.security.safe_render(pdf_path)
RunSafeRender(j) ==
    /\ runs[j].pc = "safe_render"
    /\ \E dpi \in RunDpis :
          runs' = [runs EXCEPT ![j].pc = "process", ![j].dpi = dpi]
    /\ UNCHANGED << http, offJob, pdf, pc, monitoring, openAttempts, docOpen,
                    secure_context, safe_dpi, error, vector_data, config,
                    tilingVars, fusionVars, events, result, trip >>

\* raw_results = await self.pdf_processor.process(...)
RunProcess(j) ==
    /\ runs[j].pc = "process"
    /\ \E d \in RunDetLists :
          runs' = [runs EXCEPT ![j].pc = "fuse", ![j].ml_detections = d]
    /\ UNCHANGED << http, offJob, pdf, pc, monitoring, openAttempts, docOpen,
                    secure_context, safe_dpi, error, vector_data, config,
                    tilingVars, fusionVars, events, result, trip >>

\* Faulty variant of RunFuse: fuse suspends between its set_dpi and its
\* _normalize_detections.
RunFuseSuspending(j) ==
    /\ runs[j].pc \in { "fuse", "fuse_normalize" }
    /\ IF runs[j].pc = "fuse"
       THEN /\ aligner' = set_dpi(aligner, runs[j].dpi)
            /\ runs' = [runs EXCEPT ![j].pc = "fuse_normalize"]
            /\ UNCHANGED << fused, fuseLog >>
       ELSE LET m == [dpi |-> runs[j].dpi, method |-> "direct"]
                r == [elements |-> refine_with_vectors(
                                      normalize_detections(aligner,
                                          runs[j].ml_detections), << >>),
                      raw_vectors |-> << >>,
                      metadata |-> m]
            IN  /\ fused' = r
                /\ fuseLog' = Append(fuseLog,
                       [vector_data |-> << >>,
                        ml_detections |-> runs[j].ml_detections,
                        metadata |-> m, found_dpi |-> aligner.dpi,
                        elements |-> r.elements,
                        caller_after |-> runs[j].ml_detections])
                /\ runs' = [runs EXCEPT ![j].pc = "geometry", ![j].fused = r]
                /\ UNCHANGED aligner
    /\ UNCHANGED << http, offJob, pdf, pc, monitoring, openAttempts, docOpen,
                    secure_context, safe_dpi, error, vector_data, config,
                    tilingVars, events, result, trip >>

\* fused_data = await self.fusion.fuse(raw_results["vectors"],
\* raw_results["ml_detections"], raw_results["metadata"])
RunFuse(j) ==
    /\ runs[j].pc = "fuse"
    /\ LET m == [dpi |-> runs[j].dpi, method |-> "direct"]
       IN  /\ FuseCall(<< >>, runs[j].ml_detections, m)
           /\ runs' = [runs EXCEPT
                          ![j].pc = "geometry",
                          ![j].fused = fuse(aligner, << >>,
                                            runs[j].ml_detections, m).result]
    /\ UNCHANGED << http, offJob, pdf, pc, monitoring, openAttempts, docOpen,
                    secure_context, safe_dpi, error, vector_data, config,
                    tilingVars, events, result, trip >>

\* recipe = await self.geometry_gen.generate(...), the exports and the return.
RunReturn(j) ==
    /\ runs[j].pc = "geometry"
    /\ runs' = [runs EXCEPT ![j].pc = "done"]
    /\ UNCHANGED << http, offJob, pdf, pc, monitoring, openAttempts, docOpen,
                    secure_context, safe_dpi, error, vector_data, config,
                    tilingVars, fusionVars, events, result, trip >>

SharedNext ==
    \/ \E j \in DOMAIN runs : RunSafeRender(j)
    \/ \E j \in DOMAIN runs : RunProcess(j)
    \/ \E j \in DOMAIN runs : RunFuse(j)
    \/ \E j \in DOMAIN runs : RunReturn(j)

SharedSpec == SharedInit /\ [][SharedNext]_vars

(***************************************************************************)
(* The HTTP front end for one job id: upload, POST /process any number of  *)
(* times, the background run_pipeline tasks those requests add, and the    *)
(* two download endpoints.                                                 *)
(***************************************************************************)
HttpInit == FuseInit

\* upload_floor_plan: job_status[job_id] = {"status": "uploaded", ...}
Upload ==
    /\ job_status.status = "absent"
    /\ job_status' = [status |-> "uploaded", progress |-> 0, result |-> None,
                      error |-> None]
    /\ UNCHANGED << tasks, response, runs, offJob, pdf, pc, monitoring,
                    openAttempts, docOpen, secure_context, safe_dpi, error,
                    vector_data, config, tilingVars, fusionVars, events,
                    result, trip >>

\* process_floor_plan: 404 for an unknown job, else status = "processing",
\* progress = 5 and background_tasks.add_task(run_pipeline, ...).
ProcessFloorPlan ==
    /\ job_status.status # "absent"
    /\ Len(tasks) < MaxProcess
    /\ job_status' = [job_status EXCEPT !.status = "processing", !.progress = 5]
    /\ tasks' = Append(tasks, "running")
    /\ UNCHANGED << response, runs, offJob, pdf, pc, monitoring,
                    openAttempts, docOpen, secure_context, safe_dpi, error,
                    vector_data, config, tilingVars, fusionVars, events,
                    result, trip >>

\* run_pipeline, task i: pipeline.process returned.
PipelineReturns(i) ==
    /\ tasks[i] = "running"
    /\ job_status' = [job_status EXCEPT !.status = "completed",
                                        !.progress = 100, !.result = i]
    /\ tasks' = [tasks EXCEPT ![i] = "returned"]
    /\ UNCHANGED << response, runs, offJob, pdf, pc, monitoring,
                    openAttempts, docOpen, secure_context, safe_dpi, error,
                    vector_data, config, tilingVars, fusionVars, events,
                    result, trip >>

\* run_pipeline, task i: pipeline.process raised an Exception.
PipelineRaises(i) ==
    /\ tasks[i] = "running"
    /\ job_status' = [job_status EXCEPT !.status = "failed",
                                        !.progress = -1, !.error = i]
    /\ tasks' = [tasks EXCEPT ![i] = "raised"]
    /\ UNCHANGED << response, runs, offJob, pdf, pc, monitoring,
                    openAttempts, docOpen, secure_context, safe_dpi, error,
                    vector_data, config, tilingVars, fusionVars, events,
                    result, trip >>

\* download_rvt / download_gltf: 404 for an unknown job, 400 unless status
\* is "completed", 404 if the file is not on disk, else the FileResponse.
Download(file) ==
    /\ \E on_disk \in BOOLEAN :
          response' = [file |-> file,
                       code |-> IF job_status.status = "absent" THEN 404
                                ELSE IF job_status.status # "completed" THEN 400
                                ELSE IF ~on_disk THEN 404
                                ELSE 200,
                       status |-> job_status.status]
    /\ UNCHANGED << job_status, tasks, runs, offJob, pdf, pc, monitoring,
                    openAttempts, docOpen, secure_context, safe_dpi, error,
                    vector_data, config, tilingVars, fusionVars, events,
                    result, trip >>

HttpNext ==
    \/ Upload
    \/ ProcessFloorPlan
    \/ \E i \in DOMAIN tasks : PipelineReturns(i)
    \/ \E i \in DOMAIN tasks : PipelineRaises(i)
    \/ \E file \in { "rvt", "gltf" } : Download(file)

HttpSpec == HttpInit /\ [][HttpNext]_vars

\* The same, with every background task running to its end.
HttpFairSpec ==
    HttpSpec /\ \A i \in 1..MaxProcess :
                   WF_vars(i \in DOMAIN tasks
                           /\ (PipelineReturns(i) \/ PipelineRaises(i)))

(***************************************************************************)
(* Properties.                                                             *)
(***************************************************************************)
Range(f) == { f[i] : i \in DOMAIN f }
MaxOf(S) == CHOOSE x \in S : \A y \in S : y <= x

\* The job has come back from safe_render with a strategy.
Admitted == secure_context # NoContext

\* The ladder candidates whose pixel count (w/72 * c) * (h/72 * c) is within
\* the 25,000,000-pixel ceiling and whose 3-bytes-per-pixel size is within
\* the 512 MB memory ceiling.
FittingCandidates(page) ==
    { c \in {300, 200, 150, 100, 72} :
        /\ TimesLeq(PixelCount(page, c), 1, 25000000)
        /\ TimesLeq(PixelCount(page, c), 3, 512 * 1024 * 1024) }

C2_TilingAtFloor ==
    (Admitted /\ FittingCandidates(pdf.page) = {}) =>
        /\ secure_context.method = "mandatory_tiling"
        /\ secure_context.method # "direct"
        /\ secure_context.dpi = 72

\* C2 witness: a page no candidate fits has been admitted and is being tiled.
C2_Witness ==
    /\ Admitted
    /\ FittingCandidates(pdf.page) = {}
    /\ pc = "tiling"

\* C3: when run_pipeline has returned or raised, no document handle opened
\* for the job is still open.
C3_HandleReleasedOnExit ==
    pc \in {"returned", "raised"} => ~docOpen

\* C4: a file larger than MAX_FILE_SIZE_MB makes safe_render raise
\* SecurityError, and no open of the document is ever attempted.
C4_OversizeRejectedUnopened ==
    (pdf.exists /\ pdf.size > 100 * 1024 * 1024) =>
        /\ openAttempts = 0
        /\ ~docOpen
        /\ ~Admitted
        /\ pc \notin {"start", "admission"} => error = "SecurityError"
        /\ pc \in {"start", "admission", "finally", "raised"}

\* C4 witness: a 150 MB file has been rejected and the job has raised.
C4_Witness ==
    /\ pdf.exists
    /\ pdf.size = 157286400
    /\ pc = "raised"
    /\ error = "SecurityError"

\* C5: when opening the document took longer than TIMEOUT_SECONDS,
\* safe_render ends with SecurityError and returns no strategy, so the job
\* never reaches extraction or rendering.
C5_SlowOpenAborts ==
    (openAttempts > 0 /\ pdf.open_seconds > 30) =>
        /\ error = "SecurityError"
        /\ ~Admitted
        /\ pc \in {"finally", "raised"}

\* C6: every detection d returned for the tile at grid position (gx, gy) is
\* in ml_detections with bbox d.bbox + (gx, gy, gx, gy) * (tile_size -
\* overlap), and that offset is the pixel origin (x0, y0) of the tile as
\* render_tiled rendered it; type and confidence are d's.
C6_TileOffsetExact ==
    /\ Len(det_origin) = Len(ml_detections)
    /\ \A i \in DOMAIN ml_detections :
          det_origin[i].tile # NoTile =>
            LET d == det_origin[i].local
                gx == det_origin[i].tile.grid_pos[1]
                gy == det_origin[i].tile.grid_pos[2]
                stride == tiler.tile_size - tiler.overlap
            IN  /\ ml_detections[i].bbox =
                       << d.bbox[1] + gx * stride, d.bbox[2] + gy * stride,
                          d.bbox[3] + gx * stride, d.bbox[4] + gy * stride >>
                /\ det_origin[i].tile.px72[1] = 72 * gx * stride
                /\ det_origin[i].tile.px72[2] = 72 * gy * stride
                /\ ml_detections[i].type = d.type
                /\ ml_detections[i].confidence = d.confidence

\* C6 witness: the detection [10,10,50,50] of tile (2,1), tile 2000 / overlap
\* 128, is in the output as [3754,1882,3794,1922].
C6_Witness ==
    /\ tiler = [tile_size |-> 2000, overlap |-> 128]
    /\ pc = "fuse"
    /\ \E i \in DOMAIN ml_detections :
          /\ det_origin[i].tile.grid_pos = <<2, 1>>
          /\ det_origin[i].local.bbox = <<10, 10, 50, 50>>
          /\ ml_detections[i].bbox = <<3754, 1882, 3794, 1922>>

\* C7: when render_tiled is exhausted, every pixel of the page rectangle
\* [0, width_px] x [0, height_px] lies in at least one of the tiles it
\* produced.  The page is cut into cells of half a pixel (36 72nds), the
\* grain of the page edges tried; tile edges lie on that grid.
C7_TilesCoverPage ==
    gen.pc = "done" =>
        LET width72 == pdf.page.w * secure_context.dpi
            height72 == pdf.page.h * secure_context.dpi
        IN  \A cx \in 0..(width72 \div 36 - 1), cy \in 0..(height72 \div 36 - 1) :
                \E k \in DOMAIN tiles :
                    /\ tiles[k].px72[1] <= 36 * cx
                    /\ 36 * (cx + 1) <= tiles[k].px72[3]
                    /\ tiles[k].px72[2] <= 36 * cy
                    /\ 36 * (cy + 1) <= tiles[k].px72[4]

\* C7 witness: an exhausted tiling of at least four overlapping tiles on a
\* page whose width is not a whole number of pixels, the last tile clipped.
C7_Witness ==
    /\ gen.pc = "done"
    /\ Len(tiles) >= 4
    /\ tiler.overlap > 0
    /\ (pdf.page.w * secure_context.dpi) % 72 = 36
    /\ \E k \in DOMAIN tiles :
          tiles[k].px72[3] - tiles[k].px72[1] < 72 * tiler.tile_size

\* C8: at most one tile pixel buffer is referenced, by the renderer or by the
\* consuming loop, at any time of the job.
C8_OneTileBufferLive ==
    Cardinality(LiveBuffers) <= 1

\* C9: a fused element whose detection's box, normalized to points, overlaps
\* the rect of a stroke path has geometry_source "vector_snapped", and one
\* that overlaps no stroke path has "ml_approximate".
C9_SnappedWhenVectorNear ==
    pc \in {"geometry", "export"} =>
        \A i \in DOMAIN fused.elements :
            LET b == ml_detections[i].bbox
                dpi == secure_context.dpi
                near == \E j \in DOMAIN vector_data :
                            /\ vector_data[j].type = "s"
                            /\ b[1] * 72 < vector_data[j].rect[3] * dpi
                            /\ vector_data[j].rect[1] * dpi < b[3] * 72
                            /\ b[2] * 72 < vector_data[j].rect[4] * dpi
                            /\ vector_data[j].rect[2] * dpi < b[4] * 72
            IN  fused.elements[i].geometry_source =
                    IF near THEN "vector_snapped" ELSE "ml_approximate"

\* Two logged fuse calls were given the same (vectors, detections, metadata).
SameArguments(a, b) ==
    /\ a.vector_data = b.vector_data
    /\ a.ml_detections = b.ml_detections
    /\ a.metadata = b.metadata

\* Two element lists are identical: same length, and element by element the
\* same type, confidence, provenance and (as rationals) bbox.
SameElements(x, y) ==
    /\ Len(x) = Len(y)
    /\ \A i \in DOMAIN x :
          /\ x[i].type = y[i].type
          /\ x[i].confidence = y[i].confidence
          /\ x[i].geometry_source = y[i].geometry_source
          /\ \A c \in 1..4 :
                x[i].bbox[c][1] * y[i].bbox[c][2] = y[i].bbox[c][1] * x[i].bbox[c][2]

\* C10: any two fuse calls with the same (vectors, detections, metadata)
\* return identical element lists, whatever pipeline they ran on and
\* whatever dpi an earlier call left in its aligner.
C10_FuseIdempotent ==
    \A i, j \in DOMAIN fuseLog :
        SameArguments(fuseLog[i], fuseLog[j]) =>
            SameElements(fuseLog[i].elements, fuseLog[j].elements)

\* C10 witness: the same non-empty arguments fused twice, the two calls
\* finding different dpis in the aligner, the second a dpi that is not the
\* call's own.
C10_Witness ==
    \E i, j \in DOMAIN fuseLog :
        /\ i < j
        /\ SameArguments(fuseLog[i], fuseLog[j])
        /\ Len(fuseLog[i].ml_detections) > 0
        /\ fuseLog[i].found_dpi # fuseLog[j].found_dpi
        /\ fuseLog[j].found_dpi # MetadataDpi(fuseLog[j].metadata)


(***************************************************************************)
(* The job as a whole.                                                     *)
(***************************************************************************)
\* The calls of the log with the given op.
EventsOf(op) == { i \in DOMAIN events : events[i].op = op }

\* The stage in which the job failed, read from the log: the last call made.
FailedIn(op) ==
    /\ error # "none"
    /\ events # << >>
    /\ events[Len(events)].op = op

\* C12: once run_pipeline has returned or raised, the ResourceMonitor it
\* started is stopped (monitoring is False), whichever stage failed.
C12_MonitorStoppedOnExit ==
    pc \in {"returned", "raised"} => ~monitoring

\* A job that failed in fusion has raised with the monitor stopped.
C12_Witness ==
    /\ pc = "raised"
    /\ FailedIn("fuse")
    /\ ~monitoring

\* The render and detection-model calls of the log.
RasterEvents == EventsOf("render") \cup EventsOf("detect")

\* C13: vector extraction is called at most once and has completed before
\* any render or detection-model call, under either strategy; when fuse is
\* called every render and detection call of the job has been made and has
\* returned, each render has had its detection call, and the tile generator
\* of a tiled job is exhausted.
C13_StagesInOrder ==
    /\ Cardinality(EventsOf("extract")) <= 1
    /\ \A i \in RasterEvents :
          \E j \in EventsOf("extract") : j < i /\ events[j].ok
    /\ \A i \in EventsOf("fuse") :
          /\ \A j \in RasterEvents : j < i /\ events[j].ok
          /\ EventsOf("render") # {}
          /\ Cardinality(EventsOf("render")) = Cardinality(EventsOf("detect"))
          /\ secure_context.method = "mandatory_tiling" => gen.pc = "done"

\* A tiled job that went through extraction, several tiles and fusion.
C13_Witness ==
    /\ pc = "returned"
    /\ secure_context.method = "mandatory_tiling"
    /\ EventsOf("fuse") # {}
    /\ Cardinality(EventsOf("render")) > 1

\* safe_render was called and raised.
AdmissionFailed == \E i \in EventsOf("safe_render") : ~events[i].ok

\* What makes safe_render raise for this file.
AdmissionCause ==
    \/ ~pdf.exists
    \/ FileTooLarge(security, pdf.size)
    \/ TimeoutDelivered(security, pdf.open_seconds)
    \/ pdf.open # "ok"

\* The dict run_pipeline returns for the job as it stands.
CompleteResult ==
    [status |-> "completed",
     files |-> << "rvt", "gltf" >>,
     stats |-> [method |-> secure_context.method,
                dpi |-> secure_context.dpi,
                element_count |-> Len(fused.elements)]]

ProcessReturned == pc = "fuse" \/ EventsOf("fuse") # {}

\* The grid origins g * stride (pixels) that lie inside an edge of len72 / 72
\* pixels: one tile per origin.
OriginsInside(len72, stride) ==
    { g \in 0..(len72 \div (72 * stride)) : g * stride * 72 < len72 }

\* Tiles of the job's page at the job's DPI.
TilesOfJob ==
    LET stride == tiler.tile_size - tiler.overlap
    IN  Cardinality(OriginsInside(pdf.page.w * secure_context.dpi, stride))
          * Cardinality(OriginsInside(pdf.page.h * secure_context.dpi, stride))

\* C18: every detection-model call is passed the strategy DPI and follows a
\* render of its own; when process() returns, a direct job has made one
\* render and one detection call and its detections are those the model
\* returned, bboxes unchanged, and a tiled job has made one detection call
\* per tile of the grid.
C18_DetectOncePerImage ==
    /\ \A i \in EventsOf("detect") : events[i].dpi = secure_context.dpi
    /\ Cardinality(EventsOf("detect")) <= Cardinality(EventsOf("render"))
    /\ ProcessReturned /\ secure_context.method = "direct" =>
          /\ Cardinality(EventsOf("render")) = 1
          /\ Cardinality(EventsOf("detect")) = 1
          /\ Len(ml_detections) = Len(det_origin)
          /\ \A k \in DOMAIN ml_detections : ml_detections[k] = det_origin[k].local
    /\ ProcessReturned /\ secure_context.method = "mandatory_tiling" =>
          /\ Cardinality(EventsOf("detect")) = TilesOfJob
          /\ Len(tiles) = TilesOfJob

\* A tiled job of 4 x 2 tiles has returned from process() with a detection.
C18_Witness ==
    /\ pc = "fuse"
    /\ secure_context.method = "mandatory_tiling"
    /\ pdf.page = [w |-> 7488, h |-> 3744]
    /\ Cardinality(EventsOf("detect")) = 8
    /\ ml_detections # << >>

\* C19: between any two renders of a job the generator has suspended in
\* asyncio.sleep(0), so no two tiles are rendered in one scheduler step.
C19_SuspendsBetweenTiles ==
    \A i, j \in EventsOf("render") :
        i < j => \E k \in EventsOf("suspend") : i < k /\ k < j

\* A tiled job has rendered its third tile.
C19_Witness ==
    /\ pc = "tiling"
    /\ gen.pc = "rendered"
    /\ Cardinality(EventsOf("render")) = 3
    /\ Cardinality(EventsOf("suspend")) = 2

\* The job is suspended in an await: the detection-model call of either
\* branch, the sleep of the tile generator, fuse, generate or an exporter.
AtAwait ==
    \/ pc \in {"direct_detect", "fuse", "geometry", "export"}
    \/ pc = "tiling" /\ gen.pc \in {"yielded", "sleeping"}

\* C20: at every await of the job no document or page handle is open: the
\* handle is held only for the extraction or render call that needs it.
C20_NoHandleAcrossAwait ==
    AtAwait => ~docOpen

(***************************************************************************)
(* Admission: the ladder and the final memory check.                       *)
(***************************************************************************)
\* C17: for a 5000 x 5000 pt page under the default limits the candidates
\* 300, 200, 150 and 100 each exceed 25,000,000 pixels, the candidate 72 has
\* exactly 25,000,000 pixels, and safe_render returns "direct" at 72 DPI:
\* the comparison with the pixel ceiling is inclusive.
C17_ScenarioB ==
    (Admitted /\ security = DefaultRenderer
              /\ pdf.page = [w |-> 5000, h |-> 5000]) =>
        /\ \A c \in {300, 200, 150, 100} :
              ~TimesLeq(PixelCount(pdf.page, c), 1, 25000000)
        /\ PixelCount(pdf.page, 72) = [whole |-> 25000000, rem |-> 0]
        /\ secure_context = [method |-> "direct", dpi |-> 72]

\* The 5000 x 5000 pt page has been admitted direct at 72 DPI.
C17_Witness ==
    /\ pc = "extract"
    /\ pdf.page = [w |-> 5000, h |-> 5000]
    /\ secure_context = [method |-> "direct", dpi |-> 72]
    /\ events = << Event("safe_render", 72, TRUE) >>

\* estimated memory <= ceiling for candidate c, the estimate being
\* pixels * 3 bytes * 1.5 and the ceiling max_mb * 1024 * 1024 bytes.
EstimateWithin(page, c, max_mb) ==
    TimesLeq(PixelCount(page, c), 9, 2 * max_mb * 1048576)

\* C15: when the ladder has chosen a DPI, safe_render returns that DPI, as
\* "direct" if its estimated memory (pixels * 3 * 1.5) is within the memory
\* ceiling and as "mandatory_tiling" if it is not.
C15_FinalMemoryCheck ==
    (Admitted /\ safe_dpi # None) =>
        /\ secure_context.dpi = safe_dpi
        /\ secure_context.method =
              IF EstimateWithin(pdf.page, safe_dpi, security.MAX_MEMORY_MB)
              THEN "direct" ELSE "mandatory_tiling"

\* A 36 x 24 in page under a 64 MB ceiling: the ladder chose 150 DPI (55.6 MB
\* raw), the estimate of 83.4 MB failed the final check, tiling at 150 DPI.
C15_Witness ==
    /\ pc = "extract"
    /\ pdf.page = [w |-> 2592, h |-> 1728]
    /\ security.MAX_MEMORY_MB = 64
    /\ safe_dpi = 150
    /\ secure_context = [method |-> "mandatory_tiling", dpi |-> 150]

\* The candidates whose pixel count is within the pixel ceiling and whose
\* pixels * 3 bytes, with no overhead factor, are within the memory ceiling.
RawFitting(r, page) ==
    { c \in Range(DPI_LADDER) :
        /\ TimesLeq(PixelCount(page, c), 1, r.MAX_PIXEL_COUNT)
        /\ TimesLeq(PixelCount(page, c), 3, r.MAX_MEMORY_MB * 1048576) }

RatEq(p, q) == p[1] * q[2] = q[1] * p[2]
SameCoords(xs, ys) ==
    /\ Len(xs) = Len(ys)
    /\ \A i \in DOMAIN xs : RatEq(xs[i], ys[i])

\* C11: after any sequence of set_dpi calls with DPIs > 0 the scale factor is
\* dpi / 72, and for every coordinate list x both
\* point_to_pixel(pixel_to_point(x)) and pixel_to_point(point_to_pixel(x))
\* equal x, exactly over the rationals.
C11_RoundTripExact ==
    /\ aligner.dpi > 0
    /\ aligner.scale_factor[2] # 0
    /\ aligner.scale_factor[1] * 72 = aligner.dpi * aligner.scale_factor[2]
    /\ SameCoords(trip.there_and_back, trip.x)
    /\ SameCoords(trip.back_and_there, trip.x)

\* At 300 DPI the pixel list [1000/3, -7/2] became points [80, -21/25] and
\* came back.
C11_Witness ==
    /\ aligner.dpi = 300
    /\ trip.x = << <<1000, 3>>, <<-7, 2>> >>
    /\ SameCoords(trip.points, << <<80, 1>>, <<-21, 25>> >>)
    /\ ~SameCoords(trip.points, trip.x)
    /\ SameCoords(trip.there_and_back, trip.x)

(***************************************************************************)
(* Rendering and fusion of one job together.                               *)
(***************************************************************************)
\* fuse has returned to run_pipeline.
Fused == \E i \in EventsOf("fuse") : events[i].ok

\* C21: the DPI the aligner holds after the job's fuse is the DPI that
\* safe_render chose and that every render of the job used, and the bbox of
\* the k-th fused element is the k-th detection's bbox in global pixels,
\* its tile-local bbox plus grid_pos * (tile_size - overlap) for a tiled
\* detection, times 72 / dpi.
C21_FusedAtRenderDpi ==
    Fused =>
        /\ aligner.dpi = secure_context.dpi
        /\ \A i \in EventsOf("render") : events[i].dpi = secure_context.dpi
        /\ Len(fused.elements) = Len(det_origin)
        /\ \A k \in DOMAIN fused.elements :
              LET d == det_origin[k].local
                  stride == tiler.tile_size - tiler.overlap
                  off == IF secure_context.method = "direct" THEN <<0, 0>>
                         ELSE << det_origin[k].tile.grid_pos[1] * stride,
                                 det_origin[k].tile.grid_pos[2] * stride >>
                  global == << d.bbox[1] + off[1], d.bbox[2] + off[2],
                               d.bbox[3] + off[1], d.bbox[4] + off[2] >>
              IN  \A c \in 1..4 :
                    /\ fused.elements[k].bbox[c][2] # 0
                    /\ fused.elements[k].bbox[c][1] * secure_context.dpi =
                           global[c] * 72 * fused.elements[k].bbox[c][2]

\* A page tiled at 150 DPI: the detection [10,10,50,50] of tile (2,1) was
\* fused with x1 = 3754 * 72 / 150 points.
C21_Witness ==
    /\ Fused
    /\ secure_context = [method |-> "mandatory_tiling", dpi |-> 150]
    /\ \E k \in DOMAIN fused.elements :
          /\ det_origin[k].tile.grid_pos = <<2, 1>>
          /\ det_origin[k].local.bbox = <<10, 10, 50, 50>>
          /\ fused.elements[k].bbox[1][1] * 150 =
                 3754 * 72 * fused.elements[k].bbox[1][2]

(***************************************************************************)
(* The tile grid.                                                          *)
(***************************************************************************)
\* Intervals [a, b] of an edge of len72 72nds of a pixel, no longer than
\* max_px pixels, with ends on the half-pixel grid.
Intervals(len72, max_px) ==
    { iv \in (0..(len72 \div 36)) \X (0..(len72 \div 36)) :
        iv[1] <= iv[2] /\ 36 * (iv[2] - iv[1]) <= 72 * max_px }

\* C22: when render_tiled is exhausted, every box inside the page pixel
\* rectangle whose width and height are at most `overlap` pixels lies wholly
\* inside the pixel rectangle of one of the tiles produced.
C22_SmallBoxInOneTile ==
    gen.pc = "done" =>
        \A bx \in Intervals(pdf.page.w * secure_context.dpi, tiler.overlap),
           by \in Intervals(pdf.page.h * secure_context.dpi, tiler.overlap) :
            \E k \in DOMAIN tiles :
                /\ tiles[k].px72[1] <= 36 * bx[1]
                /\ 36 * bx[2] <= tiles[k].px72[3]
                /\ tiles[k].px72[2] <= 36 * by[1]
                /\ 36 * by[2] <= tiles[k].px72[4]

\* Tile 3 / overlap 1 on a page 4 pixels wide: the box from x = 1.5 to 2.5
\* crosses the boundary x = 2 between two tiles and lies inside tile (0, 0).
C22_Witness ==
    /\ gen.pc = "done"
    /\ tiler = [tile_size |-> 3, overlap |-> 1]
    /\ pdf.page.w * secure_context.dpi = 288
    /\ \E k \in DOMAIN tiles :
          /\ tiles[k].grid_pos = <<1, 0>>
          /\ tiles[k].px72[1] = 144
    /\ \E k \in DOMAIN tiles :
          /\ tiles[k].grid_pos = <<0, 0>>
          /\ tiles[k].px72[1] <= 108
          /\ 180 <= tiles[k].px72[3]

\* Grid columns and rows of the job's page: the origins inside each edge.
GridColumns ==
    Cardinality(OriginsInside(pdf.page.w * secure_context.dpi,
                              tiler.tile_size - tiler.overlap))
GridRows ==
    Cardinality(OriginsInside(pdf.page.h * secure_context.dpi,
                              tiler.tile_size - tiler.overlap))

\* The tiles yielded so far are the first cells of the grid in row-major
\* order, each once, and an exhausted generator has yielded them all.
SinglePassSoFar ==
    /\ Len(tiles) <= GridColumns * GridRows
    /\ \A k \in DOMAIN tiles :
          tiles[k].grid_pos = << (k - 1) % GridColumns, (k - 1) \div GridColumns >>
    /\ gen.pc = "done" => Len(tiles) = GridColumns * GridRows

\* C23: render_tiled yields the cells of the ceil(width_px / stride) by
\* ceil(height_px / stride) grid once each, rows outermost, and then ends;
\* with every detection call returning or raising, process() returns or
\* raises.
C23_FiniteSinglePass ==
    /\ []SinglePassSoFar
    /\ <>(pc \in {"fuse", "finally"})

\* An exhausted pass over a grid of 3 columns and 2 rows.
C23_Witness ==
    /\ gen.pc = "done"
    /\ pc = "fuse"
    /\ GridColumns = 3
    /\ GridRows = 2
    /\ Len(tiles) = 6
    /\ tiles[4].grid_pos = <<0, 1>>

(***************************************************************************)
(* The ResourceMonitor.                                                    *)
(***************************************************************************)
\* The _monitor_loop tasks that have not ended.
AliveLoops == { i \in DOMAIN loops : loops[i] # "done" }

\* C24: while the monitor is started at most one _monitor_loop task of it
\* is alive, so at most one task writes peak_memory_mb.
C24_OneMonitorLoop ==
    monitoring => Cardinality(AliveLoops) <= 1

(***************************************************************************)
(* Admission under the class limits.                                       *)
(***************************************************************************)
\* C25: with 25,000,000 pixels, 512 MB, 3 bytes per pixel and the factor
\* 1.5, a candidate within the pixel ceiling is within both memory checks;
\* so whenever the ladder returns a DPI safe_render returns "direct" at it,
\* and "mandatory_tiling" is returned only at 72 DPI after the ladder
\* returned None.
C25_PixelCeilingBinds ==
    (Admitted /\ security = DefaultRenderer) =>
        /\ \A c \in Range(DPI_LADDER) :
              TimesLeq(PixelCount(pdf.page, c), 1, 25000000) =>
                  /\ TimesLeq(PixelCount(pdf.page, c), 3, 512 * 1048576)
                  /\ EstimateWithin(pdf.page, c, 512)
        /\ safe_dpi # None =>
              secure_context = [method |-> "direct", dpi |-> safe_dpi]
        /\ secure_context.method = "mandatory_tiling" =>
              safe_dpi = None /\ secure_context.dpi = 72

\* A 24 x 104 in page admitted direct at 100 DPI, 24,960,000 pixels.
C25_Witness ==
    /\ pc = "extract"
    /\ pdf.page = [w |-> 1728, h |-> 7488]
    /\ safe_dpi = 100
    /\ secure_context = [method |-> "direct", dpi |-> 100]
    /\ ~TimesLeq(PixelCount(pdf.page, 150), 1, 25000000)

(***************************************************************************)
(* The tiles themselves.                                                   *)
(***************************************************************************)
\* C26: an exhausted render_tiled has yielded at least one tile; every tile
\* yielded has a non-empty pixel rectangle inside the page, no wider or
\* higher than tile_size, and its rect in points is that rectangle times
\* 72 / target_dpi, which is what the aligner set to that DPI makes of it.
C26_TilesInsidePage ==
    /\ gen.pc = "done" => Len(tiles) >= 1
    /\ \A k \in DOMAIN tiles :
          LET b == tiles[k].px72
              dpi == secure_context.dpi
              pixels == [c \in 1..4 |-> << b[c], 72 >>]
          IN  /\ 0 <= b[1] /\ b[1] < b[3] /\ b[3] <= pdf.page.w * dpi
              /\ 0 <= b[2] /\ b[2] < b[4] /\ b[4] <= pdf.page.h * dpi
              /\ b[3] - b[1] <= 72 * tiler.tile_size
              /\ b[4] - b[2] <= 72 * tiler.tile_size
              /\ \A c \in 1..4 :
                    /\ tiles[k].rect[c][2] # 0
                    /\ tiles[k].rect[c][1] * dpi = b[c] * tiles[k].rect[c][2]
              /\ SameCoords(tiles[k].rect,
                            pixel_to_point(set_dpi(NewAligner, dpi), pixels))

\* At 144 DPI a page 1 pt wide is 2 pixels wide; with tile 3 the only
\* column is clipped to 2 pixels, 1 pt.
C26_Witness ==
    /\ gen.pc = "done"
    /\ secure_context.dpi = 144
    /\ pdf.page.w = 1
    /\ tiler.tile_size = 3
    /\ \A k \in DOMAIN tiles :
          /\ tiles[k].px72[3] = 144
          /\ tiles[k].rect[3][1] = tiles[k].rect[3][2]

(***************************************************************************)
(* What fuse does to the list it is given.                                 *)
(***************************************************************************)
\* C27: every fuse call returned one element per detection it was given, in
\* the order given, with the detection's type and confidence and a
\* geometry_source of ml_approximate or vector_snapped, and left the
\* caller's list as it found it.
C27_FuseOneToOne ==
    \A k \in DOMAIN fuseLog :
        LET given == fuseLog[k].ml_detections
            elements == fuseLog[k].elements
        IN  /\ Len(elements) = Len(given)
            /\ \A i \in DOMAIN given :
                  /\ elements[i].type = given[i].type
                  /\ elements[i].confidence = given[i].confidence
                  /\ elements[i].geometry_source
                        \in { "ml_approximate", "vector_snapped" }
            /\ fuseLog[k].caller_after = given

\* A call given the same detection twice (one object seen in two
\* overlapping tiles) returned two elements.
C27_Witness ==
    \E k \in DOMAIN fuseLog :
        /\ Len(fuseLog[k].ml_detections) = 2
        /\ fuseLog[k].ml_detections[1] = fuseLog[k].ml_detections[2]
        /\ Len(fuseLog[k].elements) = 2
        /\ fuseLog[k].elements[1] = fuseLog[k].elements[2]

(***************************************************************************)
(* Stopping the monitor.                                                   *)
(***************************************************************************)
\* Every write of peak_memory_mb was made by a loop that had just read
\* monitoring as True.
WritesWhileMonitoring == \A k \in DOMAIN samples : samples[k].monitoring

\* C29: a stopped monitor that is not started again has, from some moment
\* on, no loop task left; no loop writes peak_memory_mb while the monitor
\* is stopped; and peak_memory_mb never decreases.
C29_StoppedMonitorWindsDown ==
    /\ []WritesWhileMonitoring
    /\ [][peak_memory_mb' >= peak_memory_mb]_vars
    /\ (~monitoring ~> (monitoring \/ AliveLoops = {}))

\* One start(), two samples with the peak at 300, then stop() and the loop's
\* next wake-up, which ended it.
C29_Witness ==
    /\ ~monitoring
    /\ Len(loops) = 1
    /\ loops[1] = "done"
    /\ Len(samples) = 2
    /\ samples[1].value = 300
    /\ samples[2].value = 100
    /\ peak_memory_mb = 300

(***************************************************************************)
(* Jobs sharing the aligner.                                               *)
(***************************************************************************)
\* A run that has fused holds its detections converted at its own DPI.
OwnDpi(j) ==
    /\ Len(runs[j].fused.elements) = Len(runs[j].ml_detections)
    /\ \A i \in DOMAIN runs[j].ml_detections :
          \A c \in 1..4 :
              RatEq(runs[j].fused.elements[i].bbox[c],
                    << runs[j].ml_detections[i].bbox[c] * 72, runs[j].dpi >>)

\* C28: with several run_pipeline coroutines on one orchestrator, under
\* every interleaving of their suspension points, each run's detections
\* are normalized with the DPI of that run.
C28_NoForeignDpi ==
    \A j \in DOMAIN runs : runs[j].pc \in { "geometry", "done" } => OwnDpi(j)

\* Run 2 was rendered and processed first, run 1 fused first at another
\* DPI, then run 2 fused: it found the aligner at run 1's DPI.
C28_Witness ==
    /\ runs[1].pc \in { "geometry", "done" }
    /\ runs[2].pc \in { "geometry", "done" }
    /\ runs[1].dpi = 300
    /\ runs[2].dpi = 150
    /\ Len(fuseLog) = 2
    /\ fuseLog[1].metadata.dpi = 300
    /\ fuseLog[2].found_dpi = 300
    /\ fuseLog[2].metadata.dpi = 150

(***************************************************************************)
(* The HTTP front end.                                                     *)
(***************************************************************************)
\* A job set to processing reaches completed with a result or failed with
\* an error.
C30_EventuallySettled ==
    (job_status.status = "processing")
        ~> \/ job_status.status = "completed" /\ job_status.result # None
           \/ job_status.status = "failed" /\ job_status.error # None

\* A download endpoint answers with a file only when the status it reads is
\* completed.
C30_ServedOnlyCompleted ==
    response.code = 200 => response.status = "completed"

\* C30: in the HTTP front end a job that is completed never becomes failed,
\* also when POST /process is called again for it while an earlier run is
\* still in flight (the part of the claim the code does not keep; the
\* other two parts are C30_EventuallySettled and C30_ServedOnlyCompleted).
C30_CompletedNeverFails ==
    [][job_status.status = "completed" => job_status'.status # "failed"]_vars

=============================================================================
